---- MODULE Spec2Model ----
(***************************************************************************)
(* A model of the bad-crypto library: its DES block cipher (the swap-       *)
(* network permutations, the masked-shift expansion, the constant-time      *)
(* S-box lookup, the key schedule) and the generic Feistel network.         *)
(*                                                                          *)
(* A machine word is the set of the positions of its 1 bits, position 0     *)
(* being the least significant bit.  A word of width w is a subset of       *)
(* 0..w-1: a left shift drops the bits that leave the word, as the          *)
(* fixed-width shift of the source does.                                    *)
(***************************************************************************)
EXTENDS Integers, Sequences, FiniteSets, TLC

(***************************************************************************)
(* Fixed-width words.  src/secret.rs forwards each operator of Secret<T>    *)
(* to the operator of the wrapped integer, so Secret<T> is modelled as T.   *)
(***************************************************************************)
\* TLC keeps a union or a difference of sets unevaluated; Bits enumerates it.
Bits(x) == {b : b \in x}

\* The word of width w holding the natural number n (n < 2^31).
FromNat(n, w) == {b \in 0..(w - 1) : (n \div (2 ^ b)) % 2 = 1}

RECURSIVE ToNat(_)
\* The natural number a word of at most 30 bits holds.
ToNat(x) == IF x = {} THEN 0
            ELSE LET b == CHOOSE c \in x : TRUE IN (2 ^ b) + ToNat(x \ {b})

\* A 64-bit literal from its four 16-bit limbs, most significant first.
Lit64(a, b, c, d) ==
    Bits({48 + i : i \in FromNat(a, 16)} \cup {32 + i : i \in FromNat(b, 16)}
             \cup {16 + i : i \in FromNat(c, 16)} \cup FromNat(d, 16))

BitAnd(x, y) == Bits(x \cap y)
BitOr(x, y) == Bits(x \cup y)
BitXor(x, y) == Bits((x \ y) \cup (y \ x))
\* The OR of a set of words.
BitOrAll(xs) == Bits(UNION xs)
\* x << n in a word of width w: the bits shifted past position w-1 are lost.
Shl(x, n, w) == {b + n : b \in {c \in x : c + n < w}}
\* x >> n (logical).
Shr(x, n) == {b - n : b \in {c \in x : c >= n}}
\* `as` to a narrower unsigned type keeps the low w bits.
Truncate(x, w) == {b \in x : b < w}
\* A slip: a logical shift, which leaves the sign bit in position 0 alone.
SignFill8_logical(x) == IF 7 \in x THEN {0} ELSE {}

\* wrapping_sub on u8.
WrappingSub8(x, y) == FromNat((ToNat(x) + 256 - ToNat(y)) % 256, 8)
\* (x.to_signed() >> 7).to_unsigned() on u8: the arithmetic shift copies the
\* sign bit into every position.
SignFill8(x) == IF 7 \in x THEN 0..7 ELSE {}

(***************************************************************************)
(* The tables of FIPS 46-3, Appendix 1 (mod tables).  A permutation table   *)
(* lists, for each output bit from the most significant one on, the input   *)
(* bit it copies, bits being numbered from 1 at the most significant end.   *)
(***************************************************************************)
INITIAL_PERMUTATION ==
    << 58, 50, 42, 34, 26, 18, 10, 2,
       60, 52, 44, 36, 28, 20, 12, 4,
       62, 54, 46, 38, 30, 22, 14, 6,
       64, 56, 48, 40, 32, 24, 16, 8,
       57, 49, 41, 33, 25, 17, 9, 1,
       59, 51, 43, 35, 27, 19, 11, 3,
       61, 53, 45, 37, 29, 21, 13, 5,
       63, 55, 47, 39, 31, 23, 15, 7 >>

FINAL_PERMUTATION ==
    << 40, 8, 48, 16, 56, 24, 64, 32,
       39, 7, 47, 15, 55, 23, 63, 31,
       38, 6, 46, 14, 54, 22, 62, 30,
       37, 5, 45, 13, 53, 21, 61, 29,
       36, 4, 44, 12, 52, 20, 60, 28,
       35, 3, 43, 11, 51, 19, 59, 27,
       34, 2, 42, 10, 50, 18, 58, 26,
       33, 1, 41, 9, 49, 17, 57, 25 >>

EXPANSION_PERMUTATION ==
    << 32, 1, 2, 3, 4, 5,
       4, 5, 6, 7, 8, 9,
       8, 9, 10, 11, 12, 13,
       12, 13, 14, 15, 16, 17,
       16, 17, 18, 19, 20, 21,
       20, 21, 22, 23, 24, 25,
       24, 25, 26, 27, 28, 29,
       28, 29, 30, 31, 32, 1 >>

ROUND_PERMUTATION ==
    << 16, 7, 20, 21, 29, 12, 28, 17,
       1, 15, 23, 26, 5, 18, 31, 10,
       2, 8, 24, 14, 32, 27, 3, 9,
       19, 13, 30, 6, 22, 11, 4, 25 >>

\* Each S-box is indexed by the numeric value of the 6-bit chunk
\* ("lexicographic order, not the outer-bit major order" of the standard).
SUBSTITUTIONS ==
    << << 14, 0, 4, 15, 13, 7, 1, 4, 2, 14, 15, 2, 11, 13, 8, 1,
          3, 10, 10, 6, 6, 12, 12, 11, 5, 9, 9, 5, 0, 3, 7, 8,
          4, 15, 1, 12, 14, 8, 8, 2, 13, 4, 6, 9, 2, 1, 11, 7,
          15, 5, 12, 11, 9, 3, 7, 14, 3, 10, 10, 0, 5, 6, 0, 13 >>,
       << 15, 3, 1, 13, 8, 4, 14, 7, 6, 15, 11, 2, 3, 8, 4, 14,
          9, 12, 7, 0, 2, 1, 13, 10, 12, 6, 0, 9, 5, 11, 10, 5,
          0, 13, 14, 8, 7, 10, 11, 1, 10, 3, 4, 15, 13, 4, 1, 2,
          5, 11, 8, 6, 12, 7, 6, 12, 9, 0, 3, 5, 2, 14, 15, 9 >>,
       << 10, 13, 0, 7, 9, 0, 14, 9, 6, 3, 3, 4, 15, 6, 5, 10,
          1, 2, 13, 8, 12, 5, 7, 14, 11, 12, 4, 11, 2, 15, 8, 1,
          13, 1, 6, 10, 4, 13, 9, 0, 8, 6, 15, 9, 3, 8, 0, 7,
          11, 4, 1, 15, 2, 14, 12, 3, 5, 11, 10, 5, 14, 2, 7, 12 >>,
       << 7, 13, 13, 8, 14, 11, 3, 5, 0, 6, 6, 15, 9, 0, 10, 3,
          1, 4, 2, 7, 8, 2, 5, 12, 11, 1, 12, 10, 4, 14, 15, 9,
          10, 3, 6, 15, 9, 0, 0, 6, 12, 10, 11, 1, 7, 13, 13, 8,
          15, 9, 1, 4, 3, 5, 14, 11, 5, 12, 2, 7, 8, 2, 4, 14 >>,
       << 2, 14, 12, 11, 4, 2, 1, 12, 7, 4, 10, 7, 11, 13, 6, 1,
          8, 5, 5, 0, 3, 15, 15, 10, 13, 3, 0, 9, 14, 8, 9, 6,
          4, 11, 2, 8, 1, 12, 11, 7, 10, 1, 13, 14, 7, 2, 8, 13,
          15, 6, 9, 15, 12, 0, 5, 9, 6, 10, 3, 4, 0, 5, 14, 3 >>,
       << 12, 10, 1, 15, 10, 4, 15, 2, 9, 7, 2, 12, 6, 9, 8, 5,
          0, 6, 13, 1, 3, 13, 4, 14, 14, 0, 7, 11, 5, 3, 11, 8,
          9, 4, 14, 3, 15, 2, 5, 12, 2, 9, 8, 5, 12, 15, 3, 10,
          7, 11, 0, 14, 4, 1, 10, 7, 1, 6, 13, 0, 11, 8, 6, 13 >>,
       << 4, 13, 11, 0, 2, 11, 14, 7, 15, 4, 0, 9, 8, 1, 13, 10,
          3, 14, 12, 3, 9, 5, 7, 12, 5, 2, 10, 15, 6, 8, 1, 6,
          1, 6, 4, 11, 11, 13, 13, 8, 12, 1, 3, 4, 7, 10, 14, 7,
          10, 9, 15, 5, 6, 0, 8, 15, 0, 14, 5, 2, 9, 3, 2, 12 >>,
       << 13, 1, 2, 15, 8, 13, 4, 8, 6, 10, 15, 3, 11, 7, 1, 4,
          10, 12, 9, 5, 3, 6, 14, 11, 5, 0, 0, 14, 12, 9, 7, 2,
          7, 2, 11, 1, 4, 14, 1, 7, 9, 4, 12, 10, 14, 8, 2, 13,
          0, 15, 6, 12, 10, 9, 13, 0, 15, 3, 3, 5, 5, 6, 8, 11 >> >>

PERMUTED_CHOICE_1 ==
    << << 57, 49, 41, 33, 25, 17, 9,
          1, 58, 50, 42, 34, 26, 18,
          10, 2, 59, 51, 43, 35, 27,
          19, 11, 3, 60, 52, 44, 36 >>,
       << 63, 55, 47, 39, 31, 23, 15,
          7, 62, 54, 46, 38, 30, 22,
          14, 6, 61, 53, 45, 37, 29,
          21, 13, 5, 28, 20, 12, 4 >> >>

PERMUTED_CHOICE_2 ==
    << 14, 17, 11, 24, 1, 5,
       3, 28, 15, 6, 21, 10,
       23, 19, 12, 4, 26, 8,
       16, 7, 27, 20, 13, 2,
       41, 52, 31, 37, 47, 55,
       30, 40, 51, 45, 33, 48,
       44, 49, 39, 56, 34, 53,
       46, 42, 50, 36, 29, 32 >>

KEY_SCHEDULE_ROTATIONS ==
    << 1, 1, 2, 2, 2, 2, 2, 2, 1, 2, 2, 2, 2, 2, 2, 1 >>

\* The tables module as des/mod.rs names it: tables.X is tables::X.
FIPS_TABLES ==
    [INITIAL_PERMUTATION |-> INITIAL_PERMUTATION,
     FINAL_PERMUTATION |-> FINAL_PERMUTATION,
     EXPANSION_PERMUTATION |-> EXPANSION_PERMUTATION,
     ROUND_PERMUTATION |-> ROUND_PERMUTATION,
     SUBSTITUTIONS |-> SUBSTITUTIONS,
     PERMUTED_CHOICE_1 |-> PERMUTED_CHOICE_1,
     PERMUTED_CHOICE_2 |-> PERMUTED_CHOICE_2,
     KEY_SCHEDULE_ROTATIONS |-> KEY_SCHEDULE_ROTATIONS]

(***************************************************************************)
(* State.                                                                   *)
(*   pc      where the modelled call stands                                 *)
(*   tables  the tables module the DES code reads                           *)
(*   arg     the input of the call                                          *)
(*   cipher  the cipher instance: its array of round functions              *)
(*   loc     the locals of the running function                             *)
(*   out     what the call returned                                         *)
(***************************************************************************)
VARIABLES pc, tables, arg, cipher, loc, out

vars == << pc, tables, arg, cipher, loc, out >>

\* The value of a variable that holds nothing yet.
None == << >>

(***************************************************************************)
(* src/cipher/block/des/mod.rs.  A loop that only ORs one term per          *)
(* iteration into a zero accumulator is the OR of its terms.                *)
(***************************************************************************)
\* A slip: the low half first.
split_block_low_first(block) == << Truncate(block, 32), Truncate(Shr(block, 32), 32) >>

split_block(block) == << Truncate(Shr(block, 32), 32), Truncate(block, 32) >>

join_block(parts) == BitOr(Shl(parts[1], 32, 64), parts[2])

\* `bit << (outsize - 1 - i)` of iteration i (0-based) of run_permutation.
run_permutation_term(perm, val, insize, outsize, i) ==
    LET src == perm[i + 1]
        bit == BitAnd(Shr(val, insize - src), {0})
    IN  Shl(bit, outsize - 1 - i, 64)

\* A slip: the output bits placed from the top of the 64-bit word down,
\* `bit << (63 - i)`.
run_permutation_top_aligned(perm, val, insize, outsize) ==
    BitOrAll({Shl(BitAnd(Shr(val, insize - perm[i + 1]), {0}), 63 - i, 64) :
                  i \in 0..(Len(perm) - 1)})

run_permutation(perm, val, insize, outsize) ==
    BitOrAll({run_permutation_term(perm, val, insize, outsize, i) :
                  i \in 0..(Len(perm) - 1)})

\* A slip: leaving the loop once the entry was found.
run_substitution_more_until_found(subs, val, i) ==
    i < Len(subs) /\ i <= ToNat(val)

\* run_substitution's loop condition before iteration i (0-based):
\* subs.iter().enumerate() yields every entry.
run_substitution_more(subs, val, i) == i < Len(subs)

\* The mask of iteration i (0-based) of run_substitution.
run_substitution_mask(val, i) ==
    LET correct == BitXor(val, FromNat(i % 256, 8))
    IN  SignFill8(WrappingSub8(correct, {0}))

\* `mask & sub` of iteration i of run_substitution.
run_substitution_term(subs, val, i) ==
    BitAnd(run_substitution_mask(val, i), FromNat(subs[i + 1], 8))

run_substitution(subs, val) ==
    BitOrAll({run_substitution_term(subs, val, i) : i \in 0..(Len(subs) - 1)})

\* A slip: `& location` left out.
do_swap_unmasked(block, location, offset) ==
    LET temp == BitXor(Shl(block, offset, 64), block)
        b1 == BitXor(block, temp)
    IN  BitXor(b1, Shr(temp, offset))

\* A slip: the second half of the exchange, `*block ^= temp >> offset`, left out.
do_swap_half(block, location, offset) ==
    LET temp == BitAnd(BitXor(Shl(block, offset, 64), block), location)
    IN  BitXor(block, temp)

do_swap(block, location, offset) ==
    LET temp == BitAnd(BitXor(Shl(block, offset, 64), block), location)
        b1 == BitXor(block, temp)
    IN  BitXor(b1, Shr(temp, offset))

\* The five masks of the swap network.
MASK_F0F0F0F000000000 == Lit64(61680, 61680, 0, 0)
MASK_CCCC0000CCCC0000 == Lit64(52428, 0, 52428, 0)
MASK_FF000000FF000000 == Lit64(65280, 0, 65280, 0)
MASK_FFFF000000000000 == Lit64(65535, 0, 0, 0)
MASK_AAAAAAAA00000000 == Lit64(43690, 43690, 0, 0)

\* A slip: the last swap of the network left out.
initial_permute_short(block) ==
    LET b1 == do_swap(block, MASK_F0F0F0F000000000, 36)
        b2 == do_swap(b1, MASK_CCCC0000CCCC0000, 18)
        b3 == do_swap(b2, MASK_FF000000FF000000, 24)
    IN  do_swap(b3, MASK_FFFF000000000000, 48)

initial_permute(block) ==
    LET b1 == do_swap(block, MASK_F0F0F0F000000000, 36)
        b2 == do_swap(b1, MASK_CCCC0000CCCC0000, 18)
        b3 == do_swap(b2, MASK_FF000000FF000000, 24)
        b4 == do_swap(b3, MASK_FFFF000000000000, 48)
    IN  do_swap(b4, MASK_AAAAAAAA00000000, 33)

\* A slip: the swaps replayed in the order of initial_permute.
final_permute_forward(block) ==
    LET b1 == do_swap(block, MASK_F0F0F0F000000000, 36)
        b2 == do_swap(b1, MASK_CCCC0000CCCC0000, 18)
        b3 == do_swap(b2, MASK_FF000000FF000000, 24)
        b4 == do_swap(b3, MASK_FFFF000000000000, 48)
    IN  do_swap(b4, MASK_AAAAAAAA00000000, 33)

final_permute(block) ==
    LET b1 == do_swap(block, MASK_AAAAAAAA00000000, 33)
        b2 == do_swap(b1, MASK_FFFF000000000000, 48)
        b3 == do_swap(b2, MASK_FF000000FF000000, 24)
        b4 == do_swap(b3, MASK_CCCC0000CCCC0000, 18)
    IN  do_swap(b4, MASK_F0F0F0F000000000, 36)

\* A slip: the second chunk's mask 0x1F800000 written 0x0F800000.
expand_mask_slip(half_block) ==
    LET h == half_block
    IN  BitOrAll({Shl(BitAnd(h, {0}), 47, 64),
                  Shr(BitAnd(h, {31}), 31),
                  Shl(BitAnd(h, 27..31), 15, 64),
                  Shl(BitAnd(h, 23..27), 13, 64),
                  Shl(BitAnd(h, 19..24), 11, 64),
                  Shl(BitAnd(h, 15..20), 9, 64),
                  Shl(BitAnd(h, 11..16), 7, 64),
                  Shl(BitAnd(h, 7..12), 5, 64),
                  Shl(BitAnd(h, 3..8), 3, 64),
                  Shl(BitAnd(h, 0..4), 1, 64)})

\* Each mask of the source is written as the range of its 1 bits:
\* 0xF8000000 is 27..31, 0x1F800000 is 23..28, ..., 0x0000001F is 0..4.
expand(half_block) ==
    LET h == half_block
    IN  BitOrAll({Shl(BitAnd(h, {0}), 47, 64),
                  Shr(BitAnd(h, {31}), 31),
                  Shl(BitAnd(h, 27..31), 15, 64),
                  Shl(BitAnd(h, 23..28), 13, 64),
                  Shl(BitAnd(h, 19..24), 11, 64),
                  Shl(BitAnd(h, 15..20), 9, 64),
                  Shl(BitAnd(h, 11..16), 7, 64),
                  Shl(BitAnd(h, 7..12), 5, 64),
                  Shl(BitAnd(h, 3..8), 3, 64),
                  Shl(BitAnd(h, 0..4), 1, 64)})

\* A slip: the chunk masked with 0xFF.
substitute_chunk_byte(block, i) ==
    Truncate(BitAnd(Shr(block, i * 6), 0..7), 8)

\* `((block >> i*6) & 0x3F).truncate()` of iteration i of substitute: the
\* value passed to run_substitution.
substitute_chunk(block, i) ==
    Truncate(BitAnd(Shr(block, i * 6), 0..5), 8)

\* A slip: the S-boxes taken in the order of the chunks counted from the
\* least significant end, as the superseded des.rs does.
substitute_term_forward(block, i) ==
    LET chunk == Truncate(BitAnd(Shr(block, i * 6), 0..5), 8)
        res == run_substitution(tables.SUBSTITUTIONS[i + 1], chunk)
    IN  Shl(res, i * 4, 32)

\* `Secret::<u32>::from(res) << i*4` of iteration i of substitute.
substitute_term(block, i) ==
    LET chunk == substitute_chunk(block, i)
        res == run_substitution(tables.SUBSTITUTIONS[(7 - i) + 1], chunk)
    IN  Shl(res, i * 4, 32)

substitute(block) == BitOrAll({substitute_term(block, i) : i \in 0..7})

permute(block) ==
    Truncate(run_permutation(tables.ROUND_PERMUTATION, block, 32, 32), 32)

\* DesRound::encrypt; self is the DesRound, self.key its subkey.
DesRound_encrypt(self, block) ==
    permute(substitute(BitXor(expand(block), self.key)))

\* DesRound::from_key.
DesRound_from_key(key) == [type |-> "DesRound", key |-> key]

\* A slip: a rotation within the 32 bits of a native word.
rotate28_native(x, rotation) ==
    BitOr(Shr(x, 32 - rotation), BitAnd(Shl(x, rotation, 64), 0..31))

\* A slip: the mask `& 0x0FFF_FFFF` left out.
rotate28_unmasked(x, rotation) ==
    BitOr(Shr(x, 28 - rotation), Shl(x, rotation, 64))

\* The 28-bit rotation of key_schedule, as Rust parses the expression:
\* (x >> (28 - rotation)) | ((x << rotation) & 0x0FFF_FFFF).
rotate28(x, rotation) ==
    BitOr(Shr(x, 28 - rotation), BitAnd(Shl(x, rotation, 64), 0..27))

\* Array::from_fn(|_| Secret::new(0)) at length U16.
Array_from_fn_zero == [i \in 1..16 |-> {}]

\* The locals of key_schedule before its loop.
key_schedule_locals(key) ==
    [left |-> run_permutation(tables.PERMUTED_CHOICE_1[1], key, 64, 28),
     right |-> run_permutation(tables.PERMUTED_CHOICE_1[2], key, 64, 28),
     ret |-> Array_from_fn_zero,
     n |-> 0]

\* The loop runs while the zip of the rotations and the slots yields a pair.
key_schedule_more(l) ==
    l.n < Len(tables.KEY_SCHEDULE_ROTATIONS) /\ l.n < Len(l.ret)

\* A slip: every round rotates by one.
key_schedule_body_rotate_once(l) ==
    LET left == rotate28(l.left, 1)
        right == rotate28(l.right, 1)
        subkey == run_permutation(tables.PERMUTED_CHOICE_2,
                                  BitOr(Shl(left, 28, 64), right), 56, 48)
    IN  [left |-> left, right |-> right,
         ret |-> [l.ret EXCEPT ![l.n + 1] = subkey],
         n |-> l.n + 1]

\* One iteration of key_schedule's loop on its locals; n counts the
\* iterations done.
key_schedule_body(l) ==
    LET rotation == tables.KEY_SCHEDULE_ROTATIONS[l.n + 1]
        left == rotate28(l.left, rotation)
        right == rotate28(l.right, rotation)
        subkey == run_permutation(tables.PERMUTED_CHOICE_2,
                                  BitOr(Shl(left, 28, 64), right), 56, 48)
    IN  [left |-> left, right |-> right,
         ret |-> [l.ret EXCEPT ![l.n + 1] = subkey],
         n |-> l.n + 1]

(***************************************************************************)
(* src/cipher/block/feistel.rs.  A round function is a record; its type     *)
(* field selects the impl of BlockFn::encrypt.  TableRound stands for an    *)
(* arbitrary round function on a small half-block: a lookup table.          *)
(***************************************************************************)
BlockFn_encrypt(round, block) ==
    IF round.type = "DesRound" THEN DesRound_encrypt(round, block)
    ELSE round.table[block]

\* A slip: decrypt without `.rev()`.
Feistel_round_index_forward(op, len, n) == n + 1

\* The round (1-based) that iteration n (0-based) of the loop applies:
\* self.rounds.iter() in encrypt, self.rounds.iter().rev() in decrypt.
Feistel_round_index(op, len, n) ==
    IF op = "encrypt" THEN n + 1 ELSE len - n

\* A slip: the round without `mem::swap`.
Feistel_round_no_swap(round, left, right) ==
    LET l == BitXor(left, BlockFn_encrypt(round, right))
    IN  << l, right >>

\* The loop body: left = left ^ round.encrypt(right); swap(left, right).
Feistel_round(round, left, right) ==
    LET l == BitXor(left, BlockFn_encrypt(round, right))
    IN  << right, l >>

\* A slip: the halves returned as they stand after the last swap.
Feistel_result_swapped(left, right) == << left, right >>

\* What encrypt and decrypt return: (right, left).
Feistel_result(left, right) == << right, left >>

\* Feistel::from_key for RoundFn = DesRound: key.map(RoundFn::from_key), a
\* round function from every key, in order.
Feistel_from_key(key) == [i \in 1..Len(key) |-> DesRound_from_key(key[i])]

(***************************************************************************)
(* The inputs the checks draw from: the words with at most MaxBits bits     *)
(* set, the runs of whole nibbles, the words of the known-answer tests,     *)
(* and the complements of all of these.                                     *)
(***************************************************************************)
MaxBits == 1

RECURSIVE Sparse(_, _)
\* The words of width w with at most n bits set.
Sparse(w, n) ==
    IF n = 0 THEN {{}}
    ELSE LET s == Sparse(w, n - 1)
         IN  s \cup {x \cup {b} : x \in s, b \in 0..(w - 1)}

\* The words of width w whose 1 bits are one run of whole nibbles.
NibbleRuns(w) ==
    {(4 * lo)..(4 * hi + 3) : lo \in 0..((w \div 4) - 1), hi \in 0..((w \div 4) - 1)}

KEY_133457799BBCDFF1 == Lit64(4916, 22393, 39868, 57329)
KEY_0E329232EA6D0D73 == Lit64(3634, 37426, 60013, 3443)
SUBKEY_1B02EFFC7072 == Lit64(0, 6914, 61436, 28786)
SUBKEY_CB3D8B0E17F5 == Lit64(0, 52029, 35598, 6133)
BLOCK_0123456789ABCDEF == Lit64(291, 17767, 35243, 52719)
BLOCK_8787878787878787 == Lit64(34695, 34695, 34695, 34695)
BLOCK_85E813540F0AB405 == Lit64(34280, 4948, 3850, 46085)
BLOCK_CC00CCFFF0AAF0AA == Lit64(52224, 52479, 61610, 61610)
HALF_F0AAF0AA == Lit64(0, 0, 61610, 61610)
EXPANDED_7A15557A1555 == Lit64(0, 31253, 21882, 5461)
BLOCK_6117BA866527 == Lit64(0, 24855, 47750, 25895)
HALF_5C82B597 == Lit64(0, 0, 23682, 46487)

Words64 ==
    LET s == Sparse(64, MaxBits) \cup NibbleRuns(64)
                 \cup {BLOCK_0123456789ABCDEF, BLOCK_8787878787878787,
                       BLOCK_85E813540F0AB405, KEY_133457799BBCDFF1}
    IN  s \cup {(0..63) \ x : x \in s}

Words32 ==
    LET s == Sparse(32, MaxBits) \cup NibbleRuns(32) \cup {HALF_F0AAF0AA}
                 \cup {Truncate(x, 32) : x \in Words64}
    IN  s \cup {(0..31) \ x : x \in s}

(***************************************************************************)
(* The permutation tests of des/mod.rs (mod tests), one action per test     *)
(* iteration: val is the value the test draws, out the two sides of its     *)
(* assert_eq.                                                               *)
(***************************************************************************)
InitPure ==
    /\ pc = "idle"
    /\ tables = FIPS_TABLES
    /\ arg = None
    /\ cipher = None
    /\ loc = None
    /\ out = None

initial_final_inverses(val) ==
    /\ pc = "idle"
    /\ pc' = "initial_final_inverses"
    /\ arg' = val
    /\ out' = << final_permute(initial_permute(val)),
                 initial_permute(final_permute(val)) >>
    /\ UNCHANGED << tables, cipher, loc >>

initial_matches_spec_rand(val) ==
    /\ pc = "idle"
    /\ pc' = "initial_matches_spec_rand"
    /\ arg' = val
    /\ out' = << initial_permute(val),
                 run_permutation(tables.INITIAL_PERMUTATION, val, 64, 64) >>
    /\ UNCHANGED << tables, cipher, loc >>

final_matches_spec_rand(val) ==
    /\ pc = "idle"
    /\ pc' = "final_matches_spec_rand"
    /\ arg' = val
    /\ out' = << final_permute(val),
                 run_permutation(tables.FINAL_PERMUTATION, val, 64, 64) >>
    /\ UNCHANGED << tables, cipher, loc >>

expand_matches_spec_rand(val) ==
    /\ pc = "idle"
    /\ pc' = "expand_matches_spec_rand"
    /\ arg' = val
    /\ out' = << expand(val),
                 run_permutation(tables.EXPANSION_PERMUTATION, val, 32, 48) >>
    /\ UNCHANGED << tables, cipher, loc >>

NextPerm ==
    \/ \E val \in Words64 : initial_final_inverses(val)
    \/ \E val \in Words64 : initial_matches_spec_rand(val)
    \/ \E val \in Words64 : final_matches_spec_rand(val)
    \/ \E val \in Words32 : expand_matches_spec_rand(val)

SpecPerm == InitPure /\ [][NextPerm]_vars

(***************************************************************************)
(* run_substitution, one action per loop iteration.  loc.reads lists the    *)
(* table indices read so far (the memory-access trace), loc.mask is the     *)
(* mask of the last iteration.                                              *)
(***************************************************************************)
MaxTableLen == 64

\* A table of n bytes, among them bytes above 15.
ByteTable(n) == [i \in 1..n |-> (37 * (i - 1) + 11) % 256]

\* The table of tests::run_substitution_works.
IDENTITY_TABLE == [i \in 1..16 |-> i - 1]

SubTables ==
    {IDENTITY_TABLE, SUBSTITUTIONS[1], SUBSTITUTIONS[8],
     ByteTable(0), ByteTable(1), ByteTable(MaxTableLen)}

InitSubst ==
    /\ pc = "run_substitution"
    /\ tables = FIPS_TABLES
    /\ \E subs \in SubTables, val \in 0..255 : arg = [subs |-> subs, val |-> FromNat(val, 8)]
    /\ cipher = None
    /\ loc = [i |-> 0, out |-> {}, mask |-> {}, reads |-> << >>]
    /\ out = None

run_substitution_iter ==
    /\ pc = "run_substitution"
    /\ run_substitution_more(arg.subs, arg.val, loc.i)
    /\ loc' = [i |-> loc.i + 1,
               out |-> BitOr(loc.out, run_substitution_term(arg.subs, arg.val, loc.i)),
               mask |-> run_substitution_mask(arg.val, loc.i),
               reads |-> Append(loc.reads, loc.i)]
    /\ UNCHANGED << pc, tables, arg, cipher, out >>

run_substitution_return ==
    /\ pc = "run_substitution"
    /\ ~run_substitution_more(arg.subs, arg.val, loc.i)
    /\ pc' = "returned"
    /\ out' = loc.out
    /\ UNCHANGED << tables, arg, cipher, loc >>

NextSubst == run_substitution_iter \/ run_substitution_return

SpecSubst == InitSubst /\ [][NextSubst]_vars

(***************************************************************************)
(* The helpers of des/mod.rs applied to drawn words, one action per call:   *)
(* arg is what the call is given, loc the value between the two steps of a  *)
(* round trip, out the result.                                              *)
(***************************************************************************)
\* The (mask, offset) pairs of the swap network, in initial_permute's order.
SwapNetwork ==
    << << MASK_F0F0F0F000000000, 36 >>, << MASK_CCCC0000CCCC0000, 18 >>,
       << MASK_FF000000FF000000, 24 >>, << MASK_FFFF000000000000, 48 >>,
       << MASK_AAAAAAAA00000000, 33 >> >>

\* The values a 28-bit half of the key can hold.
Words28 == {x \cap (0..27) : x \in Words32}

\* The high halves join_block is given.
HighHalves == {{}, {0}, {31}, 0..31, HALF_F0AAF0AA}

\* The rotation amounts key_schedule takes from its table.
Rotations == {KEY_SCHEDULE_ROTATIONS[i] : i \in 1..Len(KEY_SCHEDULE_ROTATIONS)}

join_of_split(val) ==
    /\ pc = "idle"
    /\ pc' = "join_of_split"
    /\ arg' = val
    /\ loc' = split_block(val)
    /\ out' = join_block(split_block(val))
    /\ UNCHANGED << tables, cipher >>

split_of_join(l, r) ==
    /\ pc = "idle"
    /\ pc' = "split_of_join"
    /\ arg' = << l, r >>
    /\ loc' = join_block(<< l, r >>)
    /\ out' = split_block(join_block(<< l, r >>))
    /\ UNCHANGED << tables, cipher >>

rotate_half(x, rotation) ==
    /\ pc = "idle"
    /\ pc' = "rotate_half"
    /\ arg' = [x |-> x, rotation |-> rotation]
    /\ loc' = None
    /\ out' = rotate28(x, rotation)
    /\ UNCHANGED << tables, cipher >>

do_swap_twice(block, k) ==
    /\ pc = "idle"
    /\ pc' = "do_swap_twice"
    /\ arg' = [block |-> block, location |-> SwapNetwork[k][1],
               offset |-> SwapNetwork[k][2]]
    /\ loc' = do_swap(block, SwapNetwork[k][1], SwapNetwork[k][2])
    /\ out' = do_swap(do_swap(block, SwapNetwork[k][1], SwapNetwork[k][2]),
                      SwapNetwork[k][1], SwapNetwork[k][2])
    /\ UNCHANGED << tables, cipher >>

NextWords ==
    \/ \E val \in Words64 : join_of_split(val)
    \/ \E l \in HighHalves, r \in Words32 : split_of_join(l, r)
    \/ \E x \in Words28, rotation \in Rotations : rotate_half(x, rotation)
    \/ \E block \in Words64, k \in 1..Len(SwapNetwork) : do_swap_twice(block, k)

SpecWords == InitPure /\ [][NextWords]_vars

(***************************************************************************)
(* substitute, one action per iteration of its loop.  loc holds i, the      *)
(* accumulator out, and calls: for every call of run_substitution made so   *)
(* far the value passed and the table indices whose mask came out 0xFF.     *)
(* run_substitution is also called directly, with bytes substitute never    *)
(* passes.                                                                  *)
(***************************************************************************)
\* The table indices of a 64-entry S-box whose mask is all ones for val.
Selected(val) == {j \in 0..63 : run_substitution_mask(val, j) = 0..7}

\* The 48-bit blocks substitute is given, some with bits above bit 47 set:
\* the known-answer words, all zeros, all ones, and single chunks.
SboxBlocks ==
    {BLOCK_6117BA866527, BLOCK_6117BA866527 \cup (48..63), {}, 0..47, 0..63,
     EXPANDED_7A15557A1555}
        \cup {Shl(FromNat(v, 6), 6 * k, 64) \cup hi :
                  v \in {1, 31, 32, 37, 63}, k \in 0..7, hi \in {{}, {48, 63}}}

\* The bytes of 64 and above.
WideBytes == {FromNat(v, 8) : v \in 64..255}

substitute_enter(block) ==
    /\ pc = "idle"
    /\ pc' = "substitute"
    /\ arg' = block
    /\ loc' = [i |-> 0, out |-> {}, calls |-> << >>]
    /\ UNCHANGED << tables, cipher, out >>

substitute_iter ==
    /\ pc = "substitute"
    /\ loc.i < 8
    /\ LET chunk == substitute_chunk(arg, loc.i)
       IN  loc' = [i |-> loc.i + 1,
                   out |-> BitOr(loc.out, substitute_term(arg, loc.i)),
                   calls |-> Append(loc.calls,
                                    [val |-> chunk, selected |-> Selected(chunk)])]
    /\ UNCHANGED << pc, tables, arg, cipher, out >>

substitute_return ==
    /\ pc = "substitute"
    /\ loc.i = 8
    /\ pc' = "substituted"
    /\ out' = loc.out
    /\ UNCHANGED << tables, arg, cipher, loc >>

run_substitution_wide(val) ==
    /\ pc = "idle"
    /\ pc' = "out_of_range"
    /\ arg' = val
    /\ loc' = [i |-> 64, out |-> {}, calls |-> << [val |-> val, selected |-> Selected(val)] >>]
    /\ out' = run_substitution(tables.SUBSTITUTIONS[1], val)
    /\ UNCHANGED << tables, cipher >>

NextSbox ==
    \/ \E block \in SboxBlocks : substitute_enter(block)
    \/ substitute_iter
    \/ substitute_return
    \/ \E val \in WideBytes : run_substitution_wide(val)

SpecSbox == InitPure /\ [][NextSbox]_vars

(***************************************************************************)
(* The Feistel loop, one action per iteration, shared by the generic        *)
(* network and by DES.  loc holds the locals of the running call: op,       *)
(* left, right and n, the number of iterations done.  out lists the blocks  *)
(* the calls returned.                                                      *)
(***************************************************************************)
Inverse(op) == IF op = "encrypt" THEN "decrypt" ELSE "encrypt"

\* The call that comes next and its block: arg.first on arg.block, then the
\* other operation on what the first call returned.
NextOp == IF out = << >> THEN arg.first ELSE Inverse(arg.first)
NextBlock == IF out = << >> THEN arg.block ELSE out[1]

Feistel_iter ==
    /\ pc = "feistel"
    /\ loc.n < Len(cipher)
    /\ LET round == cipher[Feistel_round_index(loc.op, Len(cipher), loc.n)]
           s == Feistel_round(round, loc.left, loc.right)
       IN  loc' = [op |-> loc.op, left |-> s[1], right |-> s[2], n |-> loc.n + 1]
    /\ UNCHANGED << pc, tables, arg, cipher, out >>

(***************************************************************************)
(* The generic network over 2-bit half-blocks.  Init draws the cipher: an   *)
(* array of at most MaxRounds round functions, each any of RoundTables.     *)
(***************************************************************************)
MaxRounds == 3

HalfBlocks == SUBSET (0..1)

\* The round function that maps the half-blocks 0, 1, 2, 3 to a, b, c, d.
TableRound(a, b, c, d) ==
    [type |-> "TableRound",
     table |-> [x \in HalfBlocks |-> FromNat(<< a, b, c, d >>[ToNat(x) + 1], 2)]]

\* A constant, the identity, AND of the two bits, and a table that is neither
\* injective nor linear.
RoundTables ==
    {TableRound(3, 3, 3, 3), TableRound(0, 1, 2, 3),
     TableRound(0, 0, 0, 1), TableRound(1, 3, 0, 0)}

RoundArrays == UNION {[1..n -> RoundTables] : n \in 0..MaxRounds}

Init ==
    /\ pc = "ready"
    /\ tables = FIPS_TABLES
    /\ arg \in [block : HalfBlocks \X HalfBlocks, first : {"encrypt", "decrypt"}]
    /\ cipher \in RoundArrays
    /\ loc = None
    /\ out = << >>

\* Feistel::encrypt and Feistel::decrypt up to the loop.
Feistel_call ==
    /\ pc = "ready"
    /\ Len(out) < 2
    /\ pc' = "feistel"
    /\ loc' = [op |-> NextOp, left |-> NextBlock[1], right |-> NextBlock[2], n |-> 0]
    /\ UNCHANGED << tables, arg, cipher, out >>

Feistel_return ==
    /\ pc = "feistel"
    /\ loc.n = Len(cipher)
    /\ pc' = "ready"
    /\ out' = Append(out, Feistel_result(loc.left, loc.right))
    /\ loc' = None
    /\ UNCHANGED << tables, arg, cipher >>

Next == Feistel_call \/ Feistel_iter \/ Feistel_return

Spec == Init /\ [][Next]_vars

(***************************************************************************)
(* DES.  Init draws the key and the block; Des::from_key runs the key       *)
(* schedule one loop iteration per action, then the cipher encrypts and     *)
(* decrypts.  des/tables.rs fixes the tables; Init also draws a second set  *)
(* of tables whose S-boxes, expansion and round permutation differ.         *)
(***************************************************************************)
OTHER_TABLES ==
    [FIPS_TABLES EXCEPT
        !.SUBSTITUTIONS = [k \in 1..8 |-> [i \in 1..64 |-> (k * i) % 16]],
        !.EXPANSION_PERMUTATION = [i \in 1..48 |-> ((i - 1) % 32) + 1],
        !.ROUND_PERMUTATION = [i \in 1..32 |-> (i % 8) + 1]]

DesKeys ==
    {KEY_133457799BBCDFF1, KEY_0E329232EA6D0D73, {}, (0..63) \ {0, 8, 63}}

DesBlocks ==
    {BLOCK_0123456789ABCDEF, BLOCK_8787878787878787, {}, {63},
     BLOCK_85E813540F0AB405}

InitDes ==
    /\ pc = "from_key"
    /\ tables \in {FIPS_TABLES, OTHER_TABLES}
    /\ arg \in [key : DesKeys, block : DesBlocks, first : {"encrypt", "decrypt"}]
    /\ cipher = None
    /\ loc = None
    /\ out = << >>

key_schedule_enter ==
    /\ pc = "from_key"
    /\ pc' = "key_schedule"
    /\ loc' = key_schedule_locals(arg.key)
    /\ UNCHANGED << tables, arg, cipher, out >>

key_schedule_iter ==
    /\ pc = "key_schedule"
    /\ key_schedule_more(loc)
    /\ loc' = key_schedule_body(loc)
    /\ UNCHANGED << pc, tables, arg, cipher, out >>

\* key_schedule returns ret and Des::from_key builds the network from it.
Des_from_key ==
    /\ pc = "key_schedule"
    /\ ~key_schedule_more(loc)
    /\ pc' = "ready"
    /\ cipher' = Feistel_from_key(loc.ret)
    /\ loc' = None
    /\ UNCHANGED << tables, arg, out >>

\* Des::encrypt and Des::decrypt up to the loop of the inner network.
Des_call ==
    /\ pc = "ready"
    /\ Len(out) < 2
    /\ pc' = "feistel"
    /\ LET parts == split_block(initial_permute(NextBlock))
       IN  loc' = [op |-> NextOp, left |-> parts[1], right |-> parts[2], n |-> 0]
    /\ UNCHANGED << tables, arg, cipher, out >>

Des_return ==
    /\ pc = "feistel"
    /\ loc.n = Len(cipher)
    /\ pc' = "ready"
    /\ out' = Append(out, final_permute(join_block(Feistel_result(loc.left, loc.right))))
    /\ loc' = None
    /\ UNCHANGED << tables, arg, cipher >>

NextDes ==
    \/ key_schedule_enter
    \/ key_schedule_iter
    \/ Des_from_key
    \/ Des_call
    \/ Feistel_iter
    \/ Des_return

SpecDes == InitDes /\ [][NextDes]_vars

(***************************************************************************)
(* Whole calls of the generic network, as functions: the halves after the   *)
(* first n iterations of the loop, and what encrypt and decrypt return.     *)
(***************************************************************************)
RECURSIVE Feistel_loop(_, _, _, _)
Feistel_loop(op, rounds, block, n) ==
    IF n = 0 THEN block
    ELSE LET p == Feistel_loop(op, rounds, block, n - 1)
             round == rounds[Feistel_round_index(op, Len(rounds), n - 1)]
         IN  Feistel_round(round, p[1], p[2])

Feistel_encrypt(rounds, block) ==
    LET p == Feistel_loop("encrypt", rounds, block, Len(rounds))
    IN  Feistel_result(p[1], p[2])

Feistel_decrypt(rounds, block) ==
    LET p == Feistel_loop("decrypt", rounds, block, Len(rounds))
    IN  Feistel_result(p[1], p[2])

(***************************************************************************)
(* Two threads call into one shared network, each call one action per loop  *)
(* iteration, in any interleaving.  pc, loc and out are per thread here;    *)
(* arg holds the round functions the network was built from and the block   *)
(* and operation of each thread's call.  encrypt and decrypt take &self and *)
(* keep left and right in their own stack frame.                            *)
(***************************************************************************)
Threads == {1, 2}

\* A slip: left and right kept in one place shared by all calls.
Feistel_frame_shared(t) == 1

\* The frame that holds the locals of thread t's call: its own.
Feistel_frame(t) == t

\* A frame no call has entered yet.
NoFrame == [op |-> "none", left |-> {}, right |-> {}, n |-> 0]

ConcBlocks == {<< {0}, {1} >>, << {0, 1}, {} >>, << {1}, {1} >>}

ConcCalls ==
    {c \in [Threads -> [block : ConcBlocks, op : {"encrypt", "decrypt"}]] :
        c[1].block # c[2].block}

InitConc ==
    /\ pc = [t \in Threads |-> "ready"]
    /\ tables = FIPS_TABLES
    /\ cipher \in RoundArrays
    /\ arg \in [rounds : {cipher}, calls : ConcCalls]
    /\ loc = [t \in Threads |-> NoFrame]
    /\ out = [t \in Threads |-> None]

thread_call(t) ==
    /\ pc[t] = "ready"
    /\ pc' = [pc EXCEPT ![t] = "feistel"]
    /\ loc' = [loc EXCEPT ![Feistel_frame(t)] =
                  [op |-> arg.calls[t].op, left |-> arg.calls[t].block[1],
                   right |-> arg.calls[t].block[2], n |-> 0]]
    /\ UNCHANGED << tables, arg, cipher, out >>

thread_iter(t) ==
    /\ pc[t] = "feistel"
    /\ LET l == loc[Feistel_frame(t)]
       IN  /\ l.n < Len(cipher)
           /\ LET round == cipher[Feistel_round_index(l.op, Len(cipher), l.n)]
                  s == Feistel_round(round, l.left, l.right)
              IN  loc' = [loc EXCEPT ![Feistel_frame(t)] =
                             [op |-> l.op, left |-> s[1], right |-> s[2],
                              n |-> l.n + 1]]
    /\ UNCHANGED << pc, tables, arg, cipher, out >>

thread_return(t) ==
    /\ pc[t] = "feistel"
    /\ LET l == loc[Feistel_frame(t)]
       IN  /\ l.n = Len(cipher)
           /\ out' = [out EXCEPT ![t] = Feistel_result(l.left, l.right)]
    /\ pc' = [pc EXCEPT ![t] = "returned"]
    /\ UNCHANGED << tables, arg, cipher, loc >>

NextConc ==
    \E t \in Threads : thread_call(t) \/ thread_iter(t) \/ thread_return(t)

SpecConc == InitConc /\ [][NextConc]_vars

(***************************************************************************)
(* src/array.rs.  An array is the sequence of its slots; its length is the  *)
(* type-level Len.  A slot of mem::uninitialized() holds Uninit until it is *)
(* written; push and append write every slot of their output before they   *)
(* return it, so no slot is read while it holds Uninit.                     *)
(***************************************************************************)
Uninit == -1

\* Array::new.
Array_new == << >>

\* The output of push and append before it is filled: len slots of
\* mem::uninitialized().
mem_uninitialized(len) == [i \in 1..len |-> Uninit]

\* ptr::copy_nonoverlapping(src.as_ptr(), dst.as_mut_ptr().offset(offset), count).
ptr_copy_nonoverlapping(src, dst, offset, count) ==
    [i \in 1..Len(dst) |->
        IF i > offset /\ i <= offset + count THEN src[i - offset] ELSE dst[i]]

\* A slip: val written over the last slot copied, not after it.
Array_push_over_last(self, val) ==
    LET output == mem_uninitialized(Len(self) + 1)
        copied == ptr_copy_nonoverlapping(self, output, 0, Len(self))
    IN  [copied EXCEPT ![Len(self)] = val]

\* Array::push.
Array_push(self, val) ==
    LET output == mem_uninitialized(Len(self) + 1)
        copied == ptr_copy_nonoverlapping(self, output, 0, Len(self))
    IN  [copied EXCEPT ![Len(self) + 1] = val]

\* A slip: the second copy without `.offset(self.len() as isize)`.
Array_append_no_offset(self, other) ==
    LET output == mem_uninitialized(Len(self) + Len(other))
        first == ptr_copy_nonoverlapping(self, output, 0, Len(self))
    IN  ptr_copy_nonoverlapping(other, first, 0, Len(other))

\* Array::append.
Array_append(self, other) ==
    LET output == mem_uninitialized(Len(self) + Len(other))
        first == ptr_copy_nonoverlapping(self, output, 0, Len(self))
    IN  ptr_copy_nonoverlapping(other, first, Len(self), Len(other))

(***************************************************************************)
(* Two arrays are built from Array::new() by pushes, as in test_append, and *)
(* then the first appends the second.  arg lists the values pushed to each  *)
(* array so far, loc holds the two arrays, out the array append returned.   *)
(***************************************************************************)
MaxLen == 3
MaxOtherLen == 2

ArrayValues == 1..5

InitArray ==
    /\ pc = "building"
    /\ tables = FIPS_TABLES
    /\ arg = [self |-> << >>, other |-> << >>]
    /\ cipher = None
    /\ loc = [self |-> Array_new, other |-> Array_new]
    /\ out = None

push_self(val) ==
    /\ pc = "building"
    /\ Len(loc.self) < MaxLen
    /\ loc' = [loc EXCEPT !.self = Array_push(loc.self, val)]
    /\ arg' = [arg EXCEPT !.self = Append(arg.self, val)]
    /\ UNCHANGED << pc, tables, cipher, out >>

push_other(val) ==
    /\ pc = "building"
    /\ Len(loc.other) < MaxOtherLen
    /\ loc' = [loc EXCEPT !.other = Array_push(loc.other, val)]
    /\ arg' = [arg EXCEPT !.other = Append(arg.other, val)]
    /\ UNCHANGED << pc, tables, cipher, out >>

append ==
    /\ pc = "building"
    /\ pc' = "appended"
    /\ out' = Array_append(loc.self, loc.other)
    /\ UNCHANGED << tables, arg, cipher, loc >>

NextArray ==
    \/ \E val \in ArrayValues : push_self(val)
    \/ \E val \in ArrayValues : push_other(val)
    \/ append

SpecArray == InitArray /\ [][NextArray]_vars

(***************************************************************************)
(* Ownership in src/array.rs.  The elements are values with a destructor,   *)
(* numbered in the order they are made.  A container is its slots and       *)
(* whether it is live; loc holds the containers self and other and, in      *)
(* drops, how often the destructor of each element has run; arg counts the  *)
(* elements made.  push and append copy the slots bitwise into the output,  *)
(* move val in with ptr::write, and mem::forget their operands; the output  *)
(* takes the place of self.                                                 *)
(***************************************************************************)
\* The number of slots of container that hold element e.
Holds(container, e) ==
    Cardinality({i \in 1..Len(container.slots) : container.slots[i] = e})

\* The drop glue of Array: the destructor of the element in every slot runs.
Array_drop(container, drops) ==
    [e \in 1..Len(drops) |-> drops[e] + Holds(container, e)]

\* A slip: the operand left to go out of scope, so that its drop glue runs.
mem_forget_dropping(container, drops) == Array_drop(container, drops)

\* mem::forget: the operand ceases to exist and no destructor runs.
mem_forget(container, drops) == drops

\* A live container with these slots.
Live(slots) == [slots |-> slots, live |-> TRUE]

\* What is left of an operand that was forgotten: its bits, owned by nobody.
Forgotten(container) == [slots |-> container.slots, live |-> FALSE]

InitOwned ==
    /\ pc = "in_scope"
    /\ tables = FIPS_TABLES
    /\ arg = 0
    /\ cipher = None
    /\ loc = [self |-> Live(Array_new), other |-> Live(Array_new), drops |-> << >>]
    /\ out = None

\* self = self.push(val), val a new element.
owned_push_self ==
    /\ pc = "in_scope"
    /\ loc.self.live
    /\ Len(loc.self.slots) < MaxLen + MaxOtherLen
    /\ arg < MaxLen + MaxOtherLen
    /\ arg' = arg + 1
    /\ loc' = [self |-> Live(Array_push(loc.self.slots, arg + 1)),
               other |-> loc.other,
               drops |-> mem_forget(loc.self, Append(loc.drops, 0))]
    /\ UNCHANGED << pc, tables, cipher, out >>

\* other = other.push(val), val a new element.
owned_push_other ==
    /\ pc = "in_scope"
    /\ loc.other.live
    /\ Len(loc.other.slots) < MaxOtherLen
    /\ arg < MaxLen + MaxOtherLen
    /\ arg' = arg + 1
    /\ loc' = [self |-> loc.self,
               other |-> Live(Array_push(loc.other.slots, arg + 1)),
               drops |-> mem_forget(loc.other, Append(loc.drops, 0))]
    /\ UNCHANGED << pc, tables, cipher, out >>

\* self = self.append(other).
owned_append ==
    /\ pc = "in_scope"
    /\ loc.self.live
    /\ loc.other.live
    /\ loc' = [self |-> Live(Array_append(loc.self.slots, loc.other.slots)),
               other |-> Forgotten(loc.other),
               drops |-> mem_forget(loc.other, mem_forget(loc.self, loc.drops))]
    /\ UNCHANGED << pc, tables, arg, cipher, out >>

\* The containers go out of scope: the drop glue of every live one runs.
scope_end ==
    /\ pc = "in_scope"
    /\ pc' = "dropped"
    /\ LET d1 == IF loc.self.live THEN Array_drop(loc.self, loc.drops) ELSE loc.drops
           d2 == IF loc.other.live THEN Array_drop(loc.other, d1) ELSE d1
       IN  loc' = [self |-> Forgotten(loc.self), other |-> Forgotten(loc.other),
                   drops |-> d2]
    /\ UNCHANGED << tables, arg, cipher, out >>

NextOwned == owned_push_self \/ owned_push_other \/ owned_append \/ scope_end

SpecOwned == InitOwned /\ [][NextOwned]_vars

(***************************************************************************)
(* src/permutation/norx.rs at T = u32.  The 16 words b0..b15 are a function *)
(* on 0..15.  f_square_scramble runs one action per g_scramble call; loc    *)
(* holds the words, the number n of calls made and, in calls, the indices   *)
(* of the four words each call was given.                                   *)
(***************************************************************************)
ROTATIONS_32 == << 8, 11, 16, 31 >>

\* u32::rotate_right.
rotate_right(x, n) == Bits({(b + 32 - n) % 32 : b \in x})

h_add(lhs, rhs) == BitXor(BitXor(lhs, rhs), Shl(BitAnd(lhs, rhs), 1, 32))

\* g_scramble on the four words blocks[1..4]; the four words it leaves.
g_scramble(blocks, rotations) ==
    LET a1 == h_add(blocks[1], blocks[2])
        d1 == rotate_right(BitXor(a1, blocks[4]), rotations[1])
        c1 == h_add(blocks[3], d1)
        b1 == rotate_right(BitXor(blocks[2], c1), rotations[2])
        a2 == h_add(a1, b1)
        d2 == rotate_right(BitXor(a2, d1), rotations[3])
        c2 == h_add(c1, d2)
        b2 == rotate_right(BitXor(b1, c2), rotations[4])
    IN  << a2, b2, c2, d2 >>

\* The words the eight g_scramble calls of f_square_scramble are given, in
\* the order of the calls.
F_SQUARE_CALLS ==
    << << 0, 4, 8, 12 >>, << 1, 5, 9, 13 >>, << 2, 6, 10, 14 >>, << 3, 7, 11, 15 >>,
       << 0, 5, 10, 15 >>, << 1, 6, 11, 12 >>, << 2, 7, 8, 13 >>, << 3, 4, 0, 14 >> >>

\* The state of bench_f_32, b_i = i, and others of the shape
\* b_i = m * i + c, with and without the top bit of every word.
NorxStates ==
    {[i \in 0..15 |-> Bits(FromNat(m * i + c, 17) \cup hi)] :
        m \in {1, 3, 4369}, c \in {0, 1, 7, 255, 65535}, hi \in {{}, {31}}}

f_square_scramble_enter(state) ==
    /\ pc = "idle"
    /\ pc' = "f_square_scramble"
    /\ arg' = state
    /\ loc' = [blocks |-> state, n |-> 0, calls |-> << >>]
    /\ UNCHANGED << tables, cipher, out >>

g_scramble_call ==
    /\ pc = "f_square_scramble"
    /\ loc.n < Len(F_SQUARE_CALLS)
    /\ LET idx == F_SQUARE_CALLS[loc.n + 1]
           res == g_scramble([k \in 1..4 |-> loc.blocks[idx[k]]], ROTATIONS_32)
       IN  loc' = [blocks |-> [i \in 0..15 |->
                                  IF \E k \in 1..4 : idx[k] = i
                                  THEN res[CHOOSE k \in 1..4 : idx[k] = i]
                                  ELSE loc.blocks[i]],
                   n |-> loc.n + 1,
                   calls |-> Append(loc.calls, idx)]
    /\ UNCHANGED << pc, tables, arg, cipher, out >>

f_square_scramble_return ==
    /\ pc = "f_square_scramble"
    /\ loc.n = Len(F_SQUARE_CALLS)
    /\ pc' = "scrambled"
    /\ out' = loc.blocks
    /\ UNCHANGED << tables, arg, cipher, loc >>

NextNorx ==
    \/ \E state \in NorxStates : f_square_scramble_enter(state)
    \/ g_scramble_call
    \/ f_square_scramble_return

SpecNorx == InitPure /\ [][NextNorx]_vars

\* The gather a permutation table stands for: entry s at index i (0-based)
\* copies input bit insize - s, counted from the least significant end, to
\* output bit outsize - 1 - i (bits numbered from 1 at the most significant end).
GatherMSB(perm, val, insize, outsize) ==
    {outsize - 1 - i : i \in {j \in 0..(Len(perm) - 1) : (insize - perm[j + 1]) \in val}}

\* C3: for every 64-bit value v, final_permute(initial_permute(v)) = v and
\* initial_permute(final_permute(v)) = v.
PermutationsAreInverses ==
    pc = "initial_final_inverses" => out = << arg, arg >>

\* A value with many bits set that initial_permute moves went both ways round.
PermutationsAreInversesWitness ==
    /\ pc = "initial_final_inverses"
    /\ arg = BLOCK_0123456789ABCDEF
    /\ initial_permute(arg) = BLOCK_CC00CCFFF0AAF0AA
    /\ out = << arg, arg >>

\* C4: for every 64-bit value v, the swap network initial_permute(v) equals
\* the table-driven run_permutation(INITIAL_PERMUTATION, v, 64, 64), which is
\* the gather of the table under MSB-first bit numbering.
InitialMatchesTable ==
    pc = "initial_matches_spec_rand" =>
        /\ out[1] = out[2]
        /\ out[2] = GatherMSB(INITIAL_PERMUTATION, arg, 64, 64)

\* The known answer initial_permute(0x0123456789ABCDEF) = 0xCC00CCFFF0AAF0AA.
InitialMatchesTableWitness ==
    /\ pc = "initial_matches_spec_rand"
    /\ arg = BLOCK_0123456789ABCDEF
    /\ out = << BLOCK_CC00CCFFF0AAF0AA, BLOCK_CC00CCFFF0AAF0AA >>

\* C5: for every 64-bit value v, the swap network final_permute(v) equals
\* the table-driven run_permutation(FINAL_PERMUTATION, v, 64, 64), which is
\* the gather of the table under MSB-first bit numbering.
FinalMatchesTable ==
    pc = "final_matches_spec_rand" =>
        /\ out[1] = out[2]
        /\ out[1] = GatherMSB(FINAL_PERMUTATION, arg, 64, 64)

\* final_permute took 0xCC00CCFFF0AAF0AA's preimage back: a dense value moved.
FinalMatchesTableWitness ==
    /\ pc = "final_matches_spec_rand"
    /\ arg = BLOCK_8787878787878787
    /\ out[1] # arg
    /\ out[1] = out[2]
    /\ Cardinality(out[1]) = 32

\* C6: for every 32-bit half-block h, expand(h) equals the table-driven
\* run_permutation(EXPANSION_PERMUTATION, h, 32, 48) under MSB-first bit
\* numbering, and is below 2^48.
ExpandMatchesTable ==
    pc = "expand_matches_spec_rand" =>
        /\ out[1] = out[2]
        /\ out[2] = GatherMSB(EXPANSION_PERMUTATION, arg, 32, 48)
        /\ out[1] \subseteq 0..47

\* The known answer expand(0xF0AAF0AA) = 0x7A15557A1555.
ExpandMatchesTableWitness ==
    /\ pc = "expand_matches_spec_rand"
    /\ arg = HALF_F0AAF0AA
    /\ out = << EXPANDED_7A15557A1555, EXPANDED_7A15557A1555 >>

\* C7: for every table (of length n <= 64) and every input val < 128 the mask
\* of entry i is 0xFF exactly when val = i and 0x00 otherwise, so
\* run_substitution(subs, val) returns subs[val] when val < n; the identity
\* table gives the input back.
SubstitutionSelectsEntry ==
    LET val == ToNat(arg.val)
        n == Len(arg.subs)
    IN  val < 128 =>
            /\ (pc = "run_substitution" /\ loc.i > 0) =>
                   loc.mask = IF val = loc.i - 1 THEN 0..7 ELSE {}
            /\ (pc = "returned" /\ val < n) =>
                   /\ out = FromNat(arg.subs[val + 1], 8)
                   /\ out = run_substitution(arg.subs, arg.val)
                   /\ arg.subs = IDENTITY_TABLE => out = arg.val

\* The scan of a 64-entry S-box returned a nonzero entry from its middle.
SubstitutionSelectsEntryWitness ==
    /\ pc = "returned"
    /\ arg.subs = SUBSTITUTIONS[1]
    /\ ToNat(arg.val) = 37
    /\ out = FromNat(SUBSTITUTIONS[1][38], 8)
    /\ out # {}

\* C8: the table indices run_substitution reads, and the number of its
\* iterations, are those of the table alone: every index 0..len-1 once, in
\* ascending order, whatever the input.
SubstitutionTraceIsPublic ==
    /\ loc.reads = [j \in 1..loc.i |-> j - 1]
    /\ pc = "returned" => loc.i = Len(arg.subs)

\* A lookup of an entry in the middle of an S-box went on to the last entry.
SubstitutionTraceIsPublicWitness ==
    /\ pc = "returned"
    /\ arg.subs = SUBSTITUTIONS[8]
    /\ ToNat(arg.val) = 5
    /\ Len(loc.reads) = 64
    /\ loc.reads[64] = 63

\* C1: in the generic network, for every number of rounds from 0 up, every
\* array of round functions and every block, decrypting what encrypt returned
\* and encrypting what decrypt returned both give the block back.
FeistelInvolution ==
    (pc = "ready" /\ Len(out) = 2) => out[2] = arg.block

\* Three rounds that begin with a round function that is not injective
\* changed the block, and decrypt brought it back.
FeistelInvolutionWitness ==
    /\ pc = "ready"
    /\ Len(cipher) = MaxRounds
    /\ cipher[1] = TableRound(1, 3, 0, 0)
    /\ arg.first = "encrypt"
    /\ Len(out) = 2
    /\ out[1] # arg.block
    /\ out[2] = arg.block

\* C2: for every key and block, DES decrypt undoes DES encrypt (and the
\* other way round), whatever the S-box, expansion and round-permutation
\* tables hold; with the standard tables key 0x0E329232EA6D0D73 encrypts
\* 0x8787878787878787 to 0.
DesRoundTrip ==
    /\ Len(out) = 2 => out[2] = arg.block
    /\ (/\ tables = FIPS_TABLES
        /\ arg.key = KEY_0E329232EA6D0D73
        /\ arg.block = BLOCK_8787878787878787
        /\ arg.first = "encrypt"
        /\ Len(out) >= 1) => out[1] = {}

\* Under the other tables a key with distinct subkeys encrypted a block to a
\* different one and decrypt returned the block.
DesRoundTripWitness ==
    /\ tables = OTHER_TABLES
    /\ arg.key = KEY_133457799BBCDFF1
    /\ arg.block = BLOCK_0123456789ABCDEF
    /\ arg.first = "encrypt"
    /\ Len(out) = 2
    /\ out[1] # arg.block
    /\ out[2] = arg.block

\* C9: with the standard tables, Des::from_key(0x133457799BBCDFF1) encrypts
\* 0x0123456789ABCDEF to 0x85E813540F0AB405.
DesExample1 ==
    (/\ tables = FIPS_TABLES
     /\ arg.key = KEY_133457799BBCDFF1
     /\ arg.block = BLOCK_0123456789ABCDEF
     /\ arg.first = "encrypt"
     /\ Len(out) >= 1) => out[1] = BLOCK_85E813540F0AB405

\* The encryption of the example returned, over 16 rounds.
DesExample1Witness ==
    /\ tables = FIPS_TABLES
    /\ arg.key = KEY_133457799BBCDFF1
    /\ arg.block = BLOCK_0123456789ABCDEF
    /\ arg.first = "encrypt"
    /\ Len(cipher) = 16
    /\ out = << BLOCK_85E813540F0AB405 >>

\* x, a 28-bit value, rotated left by n within 28 bits.
RotL28(x, n) == {(b + n) % 28 : b \in x}

\* The rotation amounts of rounds 1..i added up.
RECURSIVE CumulativeRotation(_)
CumulativeRotation(i) ==
    IF i = 0 THEN 0
    ELSE CumulativeRotation(i - 1) + tables.KEY_SCHEDULE_ROTATIONS[i]

\* Subkey i by its definition: permuted-choice-2 of C_i << 28 | D_i.
Subkey(key, i) ==
    LET C == RotL28(GatherMSB(tables.PERMUTED_CHOICE_1[1], key, 64, 28),
                    CumulativeRotation(i))
        D == RotL28(GatherMSB(tables.PERMUTED_CHOICE_1[2], key, 64, 28),
                    CumulativeRotation(i))
    IN  GatherMSB(tables.PERMUTED_CHOICE_2, {b + 28 : b \in C} \cup D, 56, 48)

\* C10: key_schedule fills 16 slots; after i iterations slots 1..i hold the
\* subkeys of rounds 1..i, each permuted-choice-2 of the two
\* permuted-choice-1 halves rotated left within 28 bits by the rotation
\* amounts of rounds 1..i added up; the cipher built from them has the 16
\* subkeys in round order; for key 0x133457799BBCDFF1 subkey 1 is
\* 0x1B02EFFC7072 and subkey 16 is 0xCB3D8B0E17F5.
KeyScheduleSubkeys ==
    /\ pc = "key_schedule" =>
           /\ Len(loc.ret) = 16
           /\ \A i \in 1..loc.n : loc.ret[i] = Subkey(arg.key, i)
    /\ (pc = "ready" /\ out = << >>) =>
           /\ Len(cipher) = 16
           /\ \A i \in 1..16 : cipher[i].key = Subkey(arg.key, i)
           /\ arg.key = KEY_133457799BBCDFF1 =>
                  /\ cipher[1].key = SUBKEY_1B02EFFC7072
                  /\ cipher[16].key = SUBKEY_CB3D8B0E17F5

\* The key schedule of the example key ran all its iterations.
KeyScheduleSubkeysWitness ==
    /\ pc = "key_schedule"
    /\ arg.key = KEY_133457799BBCDFF1
    /\ loc.n = 16
    /\ loc.ret[1] = SUBKEY_1B02EFFC7072
    /\ loc.ret[16] = SUBKEY_CB3D8B0E17F5
    /\ loc.ret[1] # loc.ret[2]

\* C11: an array built from Array::new() by pushing v1, ..., vk dereferences
\* to [v1, ..., vk]: every push lengthens the array by one, keeps the
\* elements it had, in order, and puts the value pushed last.
PushBuildsSlice ==
    /\ loc.self = arg.self
    /\ loc.other = arg.other
    /\ Len(loc.self) = Len(arg.self)
    /\ \A i \in 1..Len(loc.self) : loc.self[i] = arg.self[i] /\ loc.self[i] # Uninit

\* Three pushes, as the first array of test_append.
PushBuildsSliceWitness ==
    /\ pc = "building"
    /\ arg.self = << 1, 2, 3 >>
    /\ loc.self = << 1, 2, 3 >>
    /\ loc.other = << >>

\* C12: a.append(b) has length n + m and holds the elements of a followed by
\* those of b, also when a or b is empty.
AppendConcatenates ==
    pc = "appended" =>
        LET n == Len(loc.self)
            m == Len(loc.other)
        IN  /\ Len(out) = n + m
            /\ \A i \in 1..n : out[i] = loc.self[i]
            /\ \A j \in 1..m : out[n + j] = loc.other[j]
            /\ out = loc.self \o loc.other

\* test_append: [1, 2, 3] appended with [4, 5].
AppendConcatenatesWitness ==
    /\ pc = "appended"
    /\ loc.self = << 1, 2, 3 >>
    /\ loc.other = << 4, 5 >>
    /\ out = << 1, 2, 3, 4, 5 >>

\* What a call of op on block returns when it runs alone.
Alone(op, rounds, block) ==
    IF op = "encrypt" THEN Feistel_encrypt(rounds, block)
    ELSE Feistel_decrypt(rounds, block)

\* C13: under every interleaving of the iterations of two calls on one
\* shared network, with different blocks, each call holds after each of its
\* iterations, and returns, what it would when run alone, and the round
\* functions of the network stay the ones it was built from.
ConcurrentCallsDoNotInterfere ==
    /\ cipher = arg.rounds
    /\ \A t \in Threads :
           LET c == arg.calls[t]
           IN  /\ pc[t] = "feistel" =>
                      << loc[t].left, loc[t].right >> =
                          Feistel_loop(c.op, arg.rounds, c.block, loc[t].n)
               /\ pc[t] = "returned" =>
                      out[t] = Alone(c.op, arg.rounds, c.block)

\* Two encrypt calls both in the middle of the rounds, one of them ahead,
\* while the other has returned nothing yet.
ConcurrentCallsDoNotInterfereWitness ==
    /\ Len(cipher) = MaxRounds
    /\ cipher[1] = TableRound(1, 3, 0, 0)
    /\ \A t \in Threads : pc[t] = "feistel" /\ arg.calls[t].op = "encrypt"
    /\ loc[1].n = 1
    /\ loc[2].n = 2
    /\ << loc[1].left, loc[1].right >> # << loc[2].left, loc[2].right >>

\* The halves (L_i, R_i) of the textbook network with round functions fs:
\* L_i = R_(i-1), R_i = L_(i-1) XOR f_i(R_(i-1)).
RECURSIVE LR(_, _, _)
LR(fs, block, i) ==
    IF i = 0 THEN block
    ELSE LET p == LR(fs, block, i - 1)
             f == fs[i].table[p[2]]
         IN  << p[2], (p[1] \ f) \cup (f \ p[1]) >>

\* C14: encrypt on (L0, R0) holds (L_i, R_i) after i iterations, the round
\* functions taken in array order, and returns (R_N, L_N); with no rounds
\* it returns (R0, L0).
EncryptIsFeistelNetwork ==
    LET N == Len(cipher)
    IN  /\ (pc = "feistel" /\ loc.op = "encrypt") =>
               << loc.left, loc.right >> = LR(cipher, NextBlock, loc.n)
        /\ (arg.first = "encrypt" /\ Len(out) >= 1) =>
               out[1] = << LR(cipher, arg.block, N)[2], LR(cipher, arg.block, N)[1] >>
        /\ (arg.first = "decrypt" /\ Len(out) = 2) =>
               out[2] = << LR(cipher, out[1], N)[2], LR(cipher, out[1], N)[1] >>
        /\ (arg.first = "encrypt" /\ Len(out) >= 1 /\ N = 0) =>
               out[1] = << arg.block[2], arg.block[1] >>

\* encrypt returned from three different rounds, with more than a swap of
\* the halves.
EncryptIsFeistelNetworkWitness ==
    /\ pc = "ready"
    /\ arg.first = "encrypt"
    /\ Len(out) = 1
    /\ cipher = << TableRound(1, 3, 0, 0), TableRound(0, 0, 0, 1),
                   TableRound(0, 1, 2, 3) >>
    /\ out[1] # << arg.block[2], arg.block[1] >>
    /\ out[1] # arg.block

\* The array of round functions in reverse order.
Reversed(fs) == [i \in 1..Len(fs) |-> fs[Len(fs) + 1 - i]]

\* C15: decrypt with the round functions [f1..fN] holds after each
\* iteration, and returns, what encrypt with [fN..f1] does: it applies the
\* encrypt of round N, then N-1, ..., then 1, each once.
DecryptIsEncryptReversed ==
    /\ (pc = "feistel" /\ loc.op = "decrypt") =>
           << loc.left, loc.right >> =
               Feistel_loop("encrypt", Reversed(cipher), NextBlock, loc.n)
    /\ (arg.first = "decrypt" /\ Len(out) >= 1) =>
           out[1] = Feistel_encrypt(Reversed(cipher), arg.block)
    /\ (arg.first = "encrypt" /\ Len(out) = 2) =>
           out[2] = Feistel_encrypt(Reversed(cipher), out[1])

\* decrypt returned from three different rounds, where the order matters:
\* encrypt with the array as it stands gives another block.
DecryptIsEncryptReversedWitness ==
    /\ pc = "ready"
    /\ arg.first = "decrypt"
    /\ Len(out) = 1
    /\ cipher = << TableRound(1, 3, 0, 0), TableRound(0, 0, 0, 1),
                   TableRound(0, 1, 2, 3) >>
    /\ out[1] = Feistel_encrypt(Reversed(cipher), arg.block)
    /\ out[1] # Feistel_encrypt(cipher, arg.block)

\* C16: split_block(b) is (the high 32 bits of b, the low 32 bits of b),
\* join_block(split_block(b)) = b for every 64-bit b, and
\* split_block(join_block((l, r))) = (l, r) for all 32-bit l and r.
SplitJoinInverse ==
    /\ pc = "join_of_split" =>
           /\ loc = << {b - 32 : b \in arg \cap (32..63)}, arg \cap (0..31) >>
           /\ out = arg
    /\ pc = "split_of_join" =>
           /\ loc = {b + 32 : b \in arg[1]} \cup arg[2]
           /\ out = arg

\* The block of example1 was split into two different halves and joined.
SplitJoinInverseWitness ==
    /\ pc = "join_of_split"
    /\ arg = BLOCK_0123456789ABCDEF
    /\ loc[1] # loc[2]
    /\ loc[1] # {}
    /\ out = BLOCK_0123456789ABCDEF

\* C17: for every x below 2^28 and rotation 1 or 2, the expression of
\* key_schedule is x rotated left by that amount within 28 bits, and is
\* below 2^28 again.
RotationWithin28Bits ==
    pc = "rotate_half" =>
        /\ arg.x \subseteq 0..27
        /\ arg.rotation \in {1, 2}
        /\ out = RotL28(arg.x, arg.rotation)
        /\ out \subseteq 0..27

\* A half with its two top bits set was rotated by 2: the bits came round
\* to the bottom.
RotationWithin28BitsWitness ==
    /\ pc = "rotate_half"
    /\ arg.rotation = 2
    /\ {26, 27} \subseteq arg.x
    /\ {0, 1} \subseteq out
    /\ out # arg.x

\* The block with the bit at every position p of mask exchanged with the
\* bit at p - offset, and every other bit kept.
Exchange(block, mask, offset) ==
    {b \in 0..63 :
        IF b \in mask THEN (b - offset) \in block
        ELSE IF (b + offset) \in mask THEN (b + offset) \in block
        ELSE b \in block}

\* C20: for each of the five (mask, offset) pairs of the swap network,
\* do_swap exchanges every bit at a mask position p with the bit at
\* p - offset, keeps every other bit, and applied twice gives the block back.
SwapExchangesAndIsInvolution ==
    /\ SwapNetwork =
           << << Lit64(61680, 61680, 0, 0), 36 >>, << Lit64(52428, 0, 52428, 0), 18 >>,
              << Lit64(65280, 0, 65280, 0), 24 >>, << Lit64(65535, 0, 0, 0), 48 >>,
              << Lit64(43690, 43690, 0, 0), 33 >> >>
    /\ pc = "do_swap_twice" =>
           /\ loc = Exchange(arg.block, arg.location, arg.offset)
           /\ out = arg.block

\* The swap by 33 changed the block of example1, and the second swap
\* restored it.
SwapExchangesAndIsInvolutionWitness ==
    /\ pc = "do_swap_twice"
    /\ arg.block = BLOCK_0123456789ABCDEF
    /\ arg.offset = 33
    /\ loc # arg.block
    /\ out = arg.block

\* C18: the rotation table has 16 entries, each 1 or 2, that add up to 28,
\* so after the 16th iteration of key_schedule's loop the two halves are
\* the permuted-choice-1 halves C0 and D0 of the key again.
RotationsReturnToStart ==
    /\ Len(tables.KEY_SCHEDULE_ROTATIONS) = 16
    /\ \A i \in 1..16 : tables.KEY_SCHEDULE_ROTATIONS[i] \in {1, 2}
    /\ CumulativeRotation(16) = 28
    /\ (pc = "key_schedule" /\ loc.n = 16) =>
           /\ loc.left = GatherMSB(tables.PERMUTED_CHOICE_1[1], arg.key, 64, 28)
           /\ loc.right = GatherMSB(tables.PERMUTED_CHOICE_1[2], arg.key, 64, 28)

\* The halves of the example key, which a rotation by one changes, are back
\* after the 16th iteration.
RotationsReturnToStartWitness ==
    /\ pc = "key_schedule"
    /\ arg.key = KEY_133457799BBCDFF1
    /\ loc.n = 16
    /\ loc.left = GatherMSB(tables.PERMUTED_CHOICE_1[1], arg.key, 64, 28)
    /\ loc.left # RotL28(loc.left, 1)
    /\ loc.right # RotL28(loc.right, 1)

\* C19: every subkey key_schedule produces, and every key a DesRound of the
\* cipher holds, is below 2^48: bits 48..63 of the 64-bit word are zero.
SubkeysBelow48Bits ==
    /\ pc = "key_schedule" =>
           \A i \in 1..Len(loc.ret) : loc.ret[i] \subseteq 0..47
    /\ \A i \in 1..Len(cipher) : cipher[i].key \subseteq 0..47

\* The cipher of a key with nearly all bits set: its first subkey has bits
\* at both ends of the 48.
SubkeysBelow48BitsWitness ==
    /\ pc = "ready"
    /\ arg.key = (0..63) \ {0, 8, 63}
    /\ Len(cipher) = 16
    /\ {0, 47} \subseteq cipher[1].key
    /\ cipher[1].key \subseteq 0..47

\* The number of slots of live containers that hold element e.
Owners(e) ==
    (IF loc.self.live THEN Holds(loc.self, e) ELSE 0)
        + (IF loc.other.live THEN Holds(loc.other, e) ELSE 0)

\* C21: push and append run no destructor: while the containers are in
\* scope every element made so far sits in exactly one slot of exactly one
\* live container and has not been dropped; once they have gone out of
\* scope every element has been dropped exactly once.
OperandsMovedNotDropped ==
    /\ Len(loc.drops) = arg
    /\ pc = "in_scope" =>
           \A e \in 1..arg : loc.drops[e] = 0 /\ Owners(e) = 1
    /\ pc = "dropped" =>
           \A e \in 1..arg : loc.drops[e] = 1 /\ Owners(e) = 0

\* Two arrays of several elements each were appended, a further element was
\* pushed onto the result, and it went out of scope.
OperandsMovedNotDroppedWitness ==
    /\ pc = "dropped"
    /\ ~loc.other.live
    /\ Len(loc.other.slots) = MaxOtherLen
    /\ Len(loc.self.slots) = MaxLen + MaxOtherLen
    /\ loc.self.slots[Len(loc.self.slots)] = arg
    /\ \A e \in 1..arg : loc.drops[e] = 1

\* The value of the k-th 6-bit chunk of the low 48 bits of block, counted
\* from the most significant end.
ChunkValue(block, k) == ToNat({j \in 0..5 : (48 - 6 * k + j) \in block})

\* The 32-bit word whose k-th nibble from the most significant end is the
\* entry of S-box k at the value of the k-th chunk.
SboxWord(block) ==
    UNION {{(32 - 4 * k) + b :
               b \in FromNat(tables.SUBSTITUTIONS[k][ChunkValue(block, k) + 1], 4)} :
           k \in 1..8}

\* C22: substitute sends the k-th 6-bit chunk from the top of its 48-bit
\* input through S-box k, indexed by the chunk's value, into the k-th
\* nibble from the top of its 32-bit output; bits 48..63 of the input do
\* not matter; with the standard S-boxes 0x6117BA866527 gives 0x5C82B597.
SubstituteAppliesSboxes ==
    pc = "substituted" =>
        /\ out = SboxWord(arg)
        /\ out = substitute(arg \cap (0..47))
        /\ out \subseteq 0..31
        /\ (arg \cap (0..47)) = BLOCK_6117BA866527 => out = HALF_5C82B597

\* The known answer, from an input that also has bits 48..63 set.
SubstituteAppliesSboxesWitness ==
    /\ pc = "substituted"
    /\ arg = BLOCK_6117BA866527 \cup (48..63)
    /\ out = HALF_5C82B597

\* C24: every value substitute passes to run_substitution is below 64, so
\* val XOR i has its sign bit clear for every table index i and the mask is
\* all ones for at most one index; for a value of 129 or more the mask is
\* all ones for more than one index.
SubstituteInputsInRange ==
    /\ pc \in {"substitute", "substituted"} =>
           \A k \in 1..Len(loc.calls) :
               LET c == loc.calls[k]
               IN  /\ ToNat(c.val) < 64
                   /\ \A i \in 0..63 : 7 \notin BitXor(c.val, FromNat(i, 8))
                   /\ c.selected = {ToNat(c.val)}
    /\ (pc = "out_of_range" /\ ToNat(arg) >= 129) =>
           Cardinality(loc.calls[1].selected) > 1

\* substitute on the all-ones word passed the largest chunk to every S-box,
\* and each call selected the last entry alone.
SubstituteInputsInRangeWitness ==
    /\ pc = "substituted"
    /\ arg = 0..63
    /\ Len(loc.calls) = 8
    /\ \A k \in 1..8 : ToNat(loc.calls[k].val) = 63 /\ loc.calls[k].selected = {63}

\* The four columns and the four diagonals of the 4x4 state.
Columns ==
    << << 0, 4, 8, 12 >>, << 1, 5, 9, 13 >>, << 2, 6, 10, 14 >>, << 3, 7, 11, 15 >> >>

Diagonals ==
    << << 0, 5, 10, 15 >>, << 1, 6, 11, 12 >>, << 2, 7, 8, 13 >>, << 3, 4, 9, 14 >> >>

\* The number of calls among from..to that were given word w.
TimesPassed(w, from, to) ==
    Cardinality({<< k, j >> \in (from..to) \X (1..4) : loc.calls[k][j] = w})

\* C23: f_square_scramble gives g_scramble the four columns and then the
\* four diagonals (b0,b5,b10,b15), (b1,b6,b11,b12), (b2,b7,b8,b13),
\* (b3,b4,b9,b14), so that in the column step and in the diagonal step
\* each of the 16 words is given to exactly one call.
ScrambleColumnsThenDiagonals ==
    pc \in {"f_square_scramble", "scrambled"} =>
        /\ \A k \in 1..Len(loc.calls) : loc.calls[k] = (Columns \o Diagonals)[k]
        /\ Len(loc.calls) >= 4 => \A w \in 0..15 : TimesPassed(w, 1, 4) = 1
        /\ Len(loc.calls) = 8 => \A w \in 0..15 : TimesPassed(w, 5, 8) = 1

\* On the state of bench_f_32 the last call was given b0 in the place of
\* b9: in the diagonal step b0 went through two calls and b9 through none.
ScrambleColumnsThenDiagonalsWitness ==
    /\ pc = "scrambled"
    /\ arg = [i \in 0..15 |-> FromNat(i, 17)]
    /\ loc.calls[8] = << 3, 4, 0, 14 >>
    /\ TimesPassed(0, 5, 8) = 2
    /\ TimesPassed(9, 5, 8) = 0
    /\ \A w \in 0..15 : TimesPassed(w, 1, 4) = 1

====
